---------------------------- MODULE Spec2Model ----------------------------
(***************************************************************************)
(* ROL::NewtonKrylovStep (packages/rol/src/step/ROL_NewtonKrylovStep.hpp): *)
(* the inexact Newton-Krylov step of an optimization run, as a state       *)
(* machine over the fields of the step object, its StepState, the shared   *)
(* AlgorithmState and the driver's vectors x and s.                        *)
(*                                                                         *)
(* Vectors are pairs of integers.  Real-valued quantities are carried      *)
(* exactly: an objective value v is held as 2*v and a norm n as n*n, so    *)
(* that 1/2 x'Hx and the Euclidean norm stay inside the integers.          *)
(***************************************************************************)
EXTENDS Integers, Sequences, FiniteSets

\* ------------------------------------------------------------------ bounds
MaxCoord == 2        \* coordinates of x lie in -MaxCoord..MaxCoord
MaxKrylovIter == 2   \* inner iteration counts reported by the solver
MaxUpdates == 2      \* outer iterations (calls of update)

\* --------------------------------------------------------------- constants
NegativeCurvature == 2   \* the Krylov flag tested at line 205

Null == "null"

\* ------------------------------------------------- Vector (interface only)
Coord == -MaxCoord..MaxCoord
Vec == Coord \X Coord
Zero == <<0, 0>>

Abs(n) == IF n < 0 THEN -n ELSE n

\* Vector::scale
Scale(a, v) == <<a * v[1], a * v[2]>>

\* Vector::axpy : y.axpy(a, v) leaves y + a*v in y
Axpy(y, a, v) == <<y[1] + a * v[1], y[2] + a * v[2]>>

\* Vector::dual : the Riesz map of a space whose inner product weighs the
\* second coordinate twice; it is not the identity.
Dual(v) == <<v[1], 2 * v[2]>>

\* Vector::norm, carried as its square
Norm(v) == v[1] * v[1] + v[2] * v[2]

\* --------------------------------------------- Objective (interface only)
\* An objective is the diagonal h of the Hessian of f(x) = 1/2 x'diag(h)x.
Objectives == {<<1, 1>>, <<2, -1>>}

\* Objective::value, carried as twice the value
ObjValue(h, p) == h[1] * p[1] * p[1] + h[2] * p[2] * p[2]

\* Objective::gradient
ObjGradient(h, p) == <<h[1] * p[1], h[2] * p[2]>>

\* Objective::hessVec at any point (the Hessian of a quadratic is constant)
ObjHessVec(h, v, p) == <<h[1] * v[1], h[2] * v[2]>>

\* ------------------------------------------------ Krylov (interface only)
KrylovFlags == {0, 1, 2, 3}

\* Directions a solver may leave in s: a degenerate one (no progress), an
\* inexact one unrelated to the system, or an exact solution of H d = rhs.
DegenerateDirections == {Zero, <<1, -1>>}

KrylovDirections(h, p, rhs) ==
  DegenerateDirections \cup {d \in Vec : ObjHessVec(h, d, p) = rhs}

\* Krylov::run : (direction, iteration count, flag), produced together
KrylovRun(h, p, rhs) ==
  [d : KrylovDirections(h, p, rhs), iter : 0..MaxKrylovIter, flag : KrylovFlags]


\* ------------------------------------------- configuration and factories
KrylovTypes == {"Conjugate Gradients", "Bogus"}
SecantTypes == {"Limited-Memory BFGS", "Bogus"}

\* Teuchos::ParameterList, the four options the step reads
ParLists ==
  [useSecant : BOOLEAN, verbosity : {0, 1},
   krylovType : KrylovTypes, secantType : SecantTypes]

\* The list with every option at the default the constructors name
DefaultParList ==
  [useSecant |-> FALSE, verbosity |-> 0,
   krylovType |-> "Conjugate Gradients", secantType |-> "Limited-Memory BFGS"]

\* StringToEKrylov : the enum of a type string; a string that names no
\* variant is an invalid configuration
StringToEKrylov(str) ==
  IF str = "Conjugate Gradients" THEN "KRYLOV_CG" ELSE "invalid"

\* StringToESecant
StringToESecant(str) ==
  IF str = "Limited-Memory BFGS" THEN "SECANT_LBFGS" ELSE "invalid"

\* KrylovFactory : the solver object built from the type string
KrylovFactory(parlist) ==
  IF StringToEKrylov(parlist.krylovType) = "invalid" THEN "invalid"
  ELSE "FactoryKrylov"

\* SecantFactory : the secant object built from the type string
SecantFactory(parlist) ==
  IF StringToESecant(parlist.secantType) = "invalid" THEN "invalid"
  ELSE "FactorySecant"

UserKrylovArgs == {Null, "UserKrylov"}
UserSecantArgs == {Null, "UserSecant"}

\* ------------------------------------------------------- the constructors
\* Each yields the fields of the new object, the set of factories it called
\* (built) and whether construction completed (ok); a failed type selection
\* or factory call throws out of the constructor.

\* NewtonKrylovStep(parlist)
Ctor1(parlist) ==
  LET useSecant == parlist.useSecant
      ekv == StringToEKrylov(parlist.krylovType)
      krylov == KrylovFactory(parlist)
      esec == StringToESecant(parlist.secantType)
      secant == IF useSecant THEN SecantFactory(parlist) ELSE Null
  IN [ok |-> "invalid" \notin {ekv, krylov, esec, secant},
      secant_ |-> secant, krylov_ |-> krylov, ekv_ |-> ekv, esec_ |-> esec,
      gp_ |-> Null, iterKrylov_ |-> 0, flagKrylov_ |-> 0,
      verbosity_ |-> parlist.verbosity, useSecantPrecond_ |-> useSecant,
      built |-> {"Krylov"} \cup (IF useSecant THEN {"Secant"} ELSE {})]

\* Variant: the user's objects are dropped and both are built from the strings
Ctor2AlwaysBuild(parlist, krylov, secant) ==
  LET useSecant == parlist.useSecant
      esec == IF useSecant THEN StringToESecant(parlist.secantType)
              ELSE "SECANT_USERDEFINED"
      sec == IF useSecant THEN SecantFactory(parlist) ELSE secant
      ekv == StringToEKrylov(parlist.krylovType)
      kry == KrylovFactory(parlist)
  IN [ok |-> "invalid" \notin {esec, sec, ekv, kry},
      secant_ |-> sec, krylov_ |-> kry, ekv_ |-> ekv, esec_ |-> esec,
      gp_ |-> Null, iterKrylov_ |-> 0, flagKrylov_ |-> 0,
      verbosity_ |-> parlist.verbosity, useSecantPrecond_ |-> useSecant,
      built |-> {"Krylov"} \cup (IF useSecant THEN {"Secant"} ELSE {})]

\* Variant: both type strings are converted whatever objects were supplied
Ctor2ParseAlways(parlist, krylov, secant) ==
  LET useSecant == parlist.useSecant
      buildSecant == useSecant /\ secant = Null
      buildKrylov == krylov = Null
      esec == StringToESecant(parlist.secantType)
      sec == IF buildSecant THEN SecantFactory(parlist) ELSE secant
      ekv == StringToEKrylov(parlist.krylovType)
      kry == IF buildKrylov THEN KrylovFactory(parlist) ELSE krylov
  IN [ok |-> "invalid" \notin {esec, sec, ekv, kry},
      secant_ |-> sec, krylov_ |-> kry, ekv_ |-> ekv, esec_ |-> esec,
      gp_ |-> Null, iterKrylov_ |-> 0, flagKrylov_ |-> 0,
      verbosity_ |-> parlist.verbosity, useSecantPrecond_ |-> useSecant,
      built |-> (IF buildKrylov THEN {"Krylov"} ELSE {})
                  \cup (IF buildSecant THEN {"Secant"} ELSE {})]

\* NewtonKrylovStep(parlist, krylov, secant)
Ctor2(parlist, krylov, secant) ==
  LET useSecant == parlist.useSecant
      buildSecant == useSecant /\ secant = Null
      buildKrylov == krylov = Null
      esec == IF buildSecant THEN StringToESecant(parlist.secantType)
              ELSE "SECANT_USERDEFINED"
      sec == IF buildSecant THEN SecantFactory(parlist) ELSE secant
      ekv == IF buildKrylov THEN StringToEKrylov(parlist.krylovType)
             ELSE "KRYLOV_USERDEFINED"
      kry == IF buildKrylov THEN KrylovFactory(parlist) ELSE krylov
  IN [ok |-> "invalid" \notin {esec, sec, ekv, kry},
      secant_ |-> sec, krylov_ |-> kry, ekv_ |-> ekv, esec_ |-> esec,
      gp_ |-> Null, iterKrylov_ |-> 0, flagKrylov_ |-> 0,
      verbosity_ |-> parlist.verbosity, useSecantPrecond_ |-> useSecant,
      built |-> (IF buildKrylov THEN {"Krylov"} ELSE {})
                  \cup (IF buildSecant THEN {"Secant"} ELSE {})]

\* ------------------------------------------------------------ compute
\* Variants of the test at line 205
FallbackOnZeroIter(flag, iter) == flag = NegativeCurvature /\ iter < 1
FallbackOnFlag(flag, iter) == flag = NegativeCurvature
FallbackOnIter(flag, iter) == iter <= 1

\* Line 205: the steepest-descent fallback is taken
FallbackTaken(flag, iter) == flag = NegativeCurvature /\ iter <= 1

\* Variant: line 208 is missing
ComputeStepNoNegate(d, g, flag, iter) ==
  IF FallbackTaken(flag, iter) THEN Dual(g) ELSE d

\* Lines 205-208: the step left in s, given what the solver returned
ComputeStep(d, g, flag, iter) ==
  Scale(-1, IF FallbackTaken(flag, iter) THEN Dual(g) ELSE d)

\* Lines 192-198: the operator handed to the solver as preconditioner
SelectPrecond(useSecant, secant) ==
  IF useSecant THEN secant ELSE "PrecondNK"

\* What a solver may write of its two output arguments: Krylov::run takes
\* iterKrylov_ and flagKrylov_ by reference and need not assign either
WriteModes == [iter : BOOLEAN, flag : BOOLEAN]
FullWrite == [iter |-> TRUE, flag |-> TRUE]

\* Variant: line 201 is missing
RunOutputsNoReset(out, w, iter0, flag0) ==
  [iter |-> IF w.iter THEN out.iter ELSE iter0,
   flag |-> IF w.flag THEN out.flag ELSE flag0]

\* Lines 201-202: the retained count and flag after the solve, iter0 and
\* flag0 being the values retained before it
RunOutputs(out, w, iter0, flag0) ==
  [iter |-> IF w.iter THEN out.iter ELSE iter0,
   flag |-> IF w.flag THEN out.flag ELSE 0]

\* Variant: the wrappers are bound to the iterate before the last update
RunCallStalePoint(st, ss, precond, out, w, flag0) ==
  [hessianAt |-> Axpy(st.iterateVec, -1, ss.descentVec),
   precond |-> precond,
   precondAt |-> IF precond = "PrecondNK"
                   THEN Axpy(st.iterateVec, -1, ss.descentVec) ELSE Null,
   rhs |-> ss.gradientVec,
   returned |-> [iter |-> IF w.iter THEN <<out.iter>> ELSE <<>>,
                 flag |-> IF w.flag THEN <<out.flag>> ELSE <<>>],
   erased |-> IF w.flag THEN <<>> ELSE <<flag0>>]

\* Lines 189-202: the solve as the solver sees it. hessianAt, precondAt: the
\* point the wrappers built at lines 190-191 and 196-197 evaluate at; rhs:
\* the right-hand side; returned: what the solver assigned to its output
\* arguments (nothing, <<>>, if it left one untouched); erased: the flag
\* line 201 overwrote, kept when the solver assigned none of its own
RunCall(st, ss, precond, out, w, flag0) ==
  [hessianAt |-> st.iterateVec,
   precond |-> precond,
   precondAt |-> IF precond = "PrecondNK" THEN st.iterateVec ELSE Null,
   rhs |-> ss.gradientVec,
   returned |-> [iter |-> IF w.iter THEN <<out.iter>> ELSE <<>>,
                 flag |-> IF w.flag THEN <<out.flag>> ELSE <<>>],
   erased |-> IF w.flag THEN <<>> ELSE <<flag0>>]

\* ------------------------------------------------------------- update
\* Variant: line 230 is missing
UpdateAlgoStateNoGrad(st, h, x1, step) ==
  [st EXCEPT !.iter = st.iter + 1,
             !.snorm = Norm(step),
             !.value = ObjValue(h, x1),
             !.iterateVec = x1,
             !.gnorm = Norm(ObjGradient(h, x1))]

\* Variant: gnorm is taken from the gradient at the iterate being left
UpdateAlgoStateStaleNorm(st, h, x1, step) ==
  [st EXCEPT !.iter = st.iter + 1,
             !.snorm = Norm(step),
             !.value = ObjValue(h, x1),
             !.ngrad = st.ngrad + 1,
             !.iterateVec = x1,
             !.gnorm = Norm(ObjGradient(h, st.iterateVec))]

\* Variant: the value evaluation at line 228 is counted in nfval
UpdateAlgoStateCountingValue(st, h, x1, step) ==
  [st EXCEPT !.iter = st.iter + 1,
             !.snorm = Norm(step),
             !.value = ObjValue(h, x1),
             !.nfval = st.nfval + 1,
             !.ngrad = st.ngrad + 1,
             !.iterateVec = x1,
             !.gnorm = Norm(ObjGradient(h, x1))]

\* Lines 218-239: AlgorithmState after update, x1 being x + s
UpdateAlgoState(st, h, x1, step) ==
  [st EXCEPT !.iter = st.iter + 1,
             !.snorm = Norm(step),
             !.value = ObjValue(h, x1),
             !.ngrad = st.ngrad + 1,
             !.iterateVec = x1,
             !.gnorm = Norm(ObjGradient(h, x1))]

\* Variant: line 220 is missing
UpdateStepStateNoDescent(ss, h, x1, step) ==
  [ss EXCEPT !.gradientVec = ObjGradient(h, x1)]

\* Lines 220, 229: StepState after update
UpdateStepState(ss, h, x1, step) ==
  [ss EXCEPT !.descentVec = step, !.gradientVec = ObjGradient(h, x1)]

\* Variant: the snapshot at line 225 is taken unconditionally
UpdateGpAlways(useSecant, gp, oldGradient) == oldGradient

\* Lines 224-226: the previous-gradient workspace after update
UpdateGp(useSecant, gp, oldGradient) ==
  IF useSecant THEN oldGradient ELSE gp

\* Variant: the secant storage is given the index of the iteration just made
UpdateCallsStaleIndex(useSecant, iter1, x1, gNew, gp1, step) ==
  << [op |-> "update", x |-> x1, flag |-> TRUE, iter |-> iter1],
     [op |-> "value", x |-> x1],
     [op |-> "gradient", x |-> x1] >>
  \o (IF useSecant
        THEN << [op |-> "updateStorage", x |-> x1, g |-> gNew, gp |-> gp1,
                 s |-> step, snorm |-> Norm(step), iter |-> iter1] >>
        ELSE << >>)

\* Variant: the objective is told of the new point after it was evaluated
UpdateCallsLateNotice(useSecant, iter1, x1, gNew, gp1, step) ==
  << [op |-> "value", x |-> x1],
     [op |-> "update", x |-> x1, flag |-> TRUE, iter |-> iter1],
     [op |-> "gradient", x |-> x1] >>
  \o (IF useSecant
        THEN << [op |-> "updateStorage", x |-> x1, g |-> gNew, gp |-> gp1,
                 s |-> step, snorm |-> Norm(step), iter |-> iter1 + 1] >>
        ELSE << >>)

\* Lines 227-235: the calls update makes on the objective and on the secant,
\* in program order; iter1 is algo_state.iter after line 218, x1 is x after
\* line 219, gNew the gradient line 229 leaves in StepState, gp1 the content
\* of gp_ after lines 224-226
UpdateCalls(useSecant, iter1, x1, gNew, gp1, step) ==
  << [op |-> "update", x |-> x1, flag |-> TRUE, iter |-> iter1],
     [op |-> "value", x |-> x1],
     [op |-> "gradient", x |-> x1] >>
  \o (IF useSecant
        THEN << [op |-> "updateStorage", x |-> x1, g |-> gNew, gp |-> gp1,
                 s |-> step, snorm |-> Norm(step), iter |-> iter1 + 1] >>
        ELSE << >>)

\* -------------------------------------------------------------- print
\* printName
PrintName(ekv, useSecant, esec) ==
  <<"Newton-Krylov", ekv>> \o (IF useSecant THEN <<esec>> ELSE <<>>)

\* printHeader
PrintHeader(verbosity) ==
  (IF verbosity > 0 THEN <<"definitions">> ELSE <<>>)
    \o <<"iter", "value", "gnorm", "snorm", "#fval", "#grad", "iterCG", "flagCG">>

\* Variant: the last two columns are exchanged
PrintLineSwapped(st, iterKrylov, flagKrylov) ==
  IF st.iter = 0 THEN <<st.iter, st.value, st.gnorm>>
  ELSE <<st.iter, st.value, st.gnorm, st.snorm, st.nfval, st.ngrad,
         flagKrylov, iterKrylov>>

\* Lines 291-309: the status line
PrintLine(st, iterKrylov, flagKrylov) ==
  IF st.iter = 0 THEN <<st.iter, st.value, st.gnorm>>
  ELSE <<st.iter, st.value, st.gnorm, st.snorm, st.nfval, st.ngrad,
         iterKrylov, flagKrylov>>

\* print
PrintText(st, print_header, ekv, useSecant, esec, verbosity, iterKrylov, flagKrylov) ==
  [name |-> IF st.iter = 0 THEN PrintName(ekv, useSecant, esec) ELSE <<>>,
   header |-> IF print_header THEN PrintHeader(verbosity) ELSE <<>>,
   line |-> PrintLine(st, iterKrylov, flagKrylov)]

NoText == [name |-> <<>>, header |-> <<>>, line |-> <<>>]

\* ================================================================ state
VARIABLES
  secant_, krylov_, ekv_, esec_, gp_, iterKrylov_, flagKrylov_, verbosity_,
  useSecantPrecond_,   \* the fields of the step object (lines 69-81)
  step_state,          \* Step::getState(): gradientVec, descentVec
  algo_state,          \* the AlgorithmState record shared with the driver
  x, s,                \* the driver's iterate and step vectors
  obj,                 \* the objective passed to every call
  pc,                  \* the last life-cycle call made on the step
  hist,                \* the text returned by print, if print was the last call
  args,                \* the arguments the constructor was called with
  built,               \* the factories the constructor called
  kd,                  \* the direction Krylov::run left in s (before line 205)
  used,                \* the collaborator objects the calls reached
  nUpdate,             \* calls of update
  nStorage,            \* calls of Secant::updateStorage
  nGradient,           \* calls of Objective::gradient
  nValue,              \* calls of Objective::value made by update
  krun,                \* the solve of the last compute, as the solver saw it
  calls,               \* the calls the last update made, in program order
  fault                \* the null dereference that ended the run, if any

fields == <<secant_, krylov_, ekv_, esec_, gp_, iterKrylov_, flagKrylov_,
            verbosity_, useSecantPrecond_>>
driver == <<step_state, algo_state, x, s, obj>>
observed == <<args, built, kd, used, nUpdate, nStorage, nGradient, nValue,
              krun, calls, fault>>
vars == <<fields, driver, pc, hist, observed>>

NoArgs == [ctor |-> 0, parlist |-> DefaultParList, krylov |-> Null, secant |-> Null]
\* krylov, precond: the solver run and the preconditioner handed to it by the
\* last compute; storage: the object whose updateStorage update called
NoUse == [krylov |-> "none", precond |-> "none", storage |-> "none"]
NoRun ==
  [hessianAt |-> Null, precond |-> "none", precondAt |-> Null, rhs |-> Null,
   returned |-> [iter |-> <<>>, flag |-> <<>>], erased |-> <<>>]
NoFault == [op |-> "none", line |-> 0, ptr |-> "none"]
NoAlgoState ==
  [iter |-> 0, value |-> 0, gnorm |-> 0, snorm |-> 0, nfval |-> 0, ngrad |-> 0,
   iterateVec |-> Null]
NoStepState == [gradientVec |-> Null, descentVec |-> Null]

\* The driver's side of every state: nothing initialized, nothing called yet
DriverInit ==
  /\ step_state = NoStepState
  /\ algo_state = NoAlgoState
  /\ x = Zero /\ s = Zero /\ obj = <<1, 1>>
  /\ hist = NoText
  /\ kd = Zero /\ used = NoUse
  /\ nUpdate = 0 /\ nStorage = 0 /\ nGradient = 0 /\ nValue = 0
  /\ krun = NoRun /\ calls = <<>> /\ fault = NoFault

\* The fields of the step are those the constructor result c holds
Constructed(c) ==
  /\ secant_ = c.secant_ /\ krylov_ = c.krylov_
  /\ ekv_ = c.ekv_ /\ esec_ = c.esec_ /\ gp_ = c.gp_
  /\ iterKrylov_ = c.iterKrylov_ /\ flagKrylov_ = c.flagKrylov_
  /\ verbosity_ = c.verbosity_ /\ useSecantPrecond_ = c.useSecantPrecond_
  /\ built = c.built

\* Before construction: no object yet
InitLife ==
  /\ pc = "new"
  /\ args = NoArgs
  /\ secant_ = Null /\ krylov_ = Null /\ ekv_ = "unset" /\ esec_ = "unset"
  /\ gp_ = Null /\ iterKrylov_ = 0 /\ flagKrylov_ = 0 /\ verbosity_ = 0
  /\ useSecantPrecond_ = FALSE /\ built = {}
  /\ DriverInit

\* After NewtonKrylovStep(parlist) with valid type strings
Init ==
  /\ pc = "constructed"
  /\ \E u \in BOOLEAN :
       /\ args = [NoArgs EXCEPT !.ctor = 1, !.parlist.useSecant = u]
       /\ Constructed(Ctor1(args.parlist))
  /\ DriverInit

\* --------------------------------------------------------------- actions
Construct(a, c) ==
  /\ pc = "new"
  /\ args' = a
  /\ IF c.ok
       THEN /\ pc' = "constructed"
            /\ secant_' = c.secant_ /\ krylov_' = c.krylov_
            /\ ekv_' = c.ekv_ /\ esec_' = c.esec_ /\ gp_' = c.gp_
            /\ iterKrylov_' = c.iterKrylov_ /\ flagKrylov_' = c.flagKrylov_
            /\ verbosity_' = c.verbosity_
            /\ useSecantPrecond_' = c.useSecantPrecond_
            /\ built' = c.built
       ELSE /\ pc' = "failed"
            /\ UNCHANGED <<fields, built>>
  /\ UNCHANGED <<driver, hist, kd, used, nUpdate, nStorage, nGradient, nValue,
                 krun, calls, fault>>

\* NewtonKrylovStep(parlist)
Construct1 ==
  \E parlist \in ParLists :
    Construct([ctor |-> 1, parlist |-> parlist, krylov |-> Null, secant |-> Null],
              Ctor1(parlist))

\* NewtonKrylovStep(parlist, krylov, secant)
Construct2 ==
  \E parlist \in ParLists, krylov \in UserKrylovArgs, secant \in UserSecantArgs :
    Construct([ctor |-> 2, parlist |-> parlist, krylov |-> krylov, secant |-> secant],
              Ctor2(parlist, krylov, secant))

\* Variant: line 179 is missing
InitializeNoClone(starts, objectives) ==
  /\ pc = "constructed"
  /\ \E x0 \in starts, h \in objectives :
       LET g == ObjGradient(h, x0) IN
       /\ x' = x0 /\ s' = Zero /\ obj' = h
       /\ step_state' = [gradientVec |-> g, descentVec |-> Zero]
       /\ algo_state' = [NoAlgoState EXCEPT !.iterateVec = x0,
                                            !.value = ObjValue(h, x0),
                                            !.gnorm = Norm(g)]
       /\ gp_' = gp_
  /\ pc' = "initialized"
  /\ hist' = NoText
  /\ UNCHANGED <<secant_, krylov_, ekv_, esec_, iterKrylov_, flagKrylov_,
                 verbosity_, useSecantPrecond_, observed>>

\* initialize(x, s, g, obj, bnd, algo_state), called once, with the start
\* point x0, a zero step, the gradient g at x0 and a fresh AlgorithmState
\* (Step::initialize allocates StepState from s and g and does no numerical
\* work); g.clone() leaves gp_ allocated, its content not yet meaningful
Initialize(starts, objectives) ==
  /\ pc = "constructed"
  /\ \E x0 \in starts, h \in objectives :
       LET g == ObjGradient(h, x0) IN
       /\ x' = x0 /\ s' = Zero /\ obj' = h
       /\ step_state' = [gradientVec |-> g, descentVec |-> Zero]
       /\ algo_state' = [NoAlgoState EXCEPT !.iterateVec = x0,
                                            !.value = ObjValue(h, x0),
                                            !.gnorm = Norm(g)]
       /\ gp_' = IF useSecantPrecond_ THEN Zero ELSE gp_
  /\ pc' = "initialized"
  /\ hist' = NoText
  /\ UNCHANGED <<secant_, krylov_, ekv_, esec_, iterKrylov_, flagKrylov_,
                 verbosity_, useSecantPrecond_, observed>>

Ready == pc \in {"initialized", "computed", "updated"}

\* The object a pointer of the step, of StepState or of AlgorithmState holds
Pointee(ptr) ==
  CASE ptr = "krylov_" -> krylov_
    [] ptr = "secant_" -> secant_
    [] ptr = "gp_" -> gp_
    [] ptr = "gradientVec" -> step_state.gradientVec
    [] ptr = "descentVec" -> step_state.descentVec
    [] ptr = "iterateVec" -> algo_state.iterateVec

\* The pointers compute dereferences, in program order: the arguments of the
\* call at line 202 and its callee, the iterate inside HessianNK::apply
ComputeDerefs ==
  << [line |-> 202, ptr |-> "gradientVec"] >>
  \o (IF useSecantPrecond_ THEN << [line |-> 202, ptr |-> "secant_"] >> ELSE << >>)
  \o << [line |-> 202, ptr |-> "krylov_"], [line |-> 91, ptr |-> "iterateVec"] >>

\* The pointers update dereferences, in program order
UpdateDerefs ==
  << [line |-> 220, ptr |-> "descentVec"] >>
  \o (IF useSecantPrecond_
        THEN << [line |-> 225, ptr |-> "gp_"], [line |-> 225, ptr |-> "gradientVec"] >>
        ELSE << >>)
  \o << [line |-> 229, ptr |-> "gradientVec"] >>
  \o (IF useSecantPrecond_
        THEN << [line |-> 234, ptr |-> "secant_"], [line |-> 234, ptr |-> "gp_"] >>
        ELSE << >>)
  \o << [line |-> 238, ptr |-> "iterateVec"], [line |-> 239, ptr |-> "gradientVec"] >>

\* Those of the dereferences that meet a null pointer in this state
NullDerefs(derefs) ==
  LET IsNull(d) == Pointee(d.ptr) = Null IN SelectSeq(derefs, IsNull)

\* compute or update called before initialize. Dereferencing a null RCP is
\* undefined (an exception in a checked build, otherwise anything), so the
\* call ends the run at any one of the null dereferences on its path
CallEarly(op, derefs) ==
  /\ pc = "constructed"
  /\ \E i \in 1..Len(NullDerefs(derefs)) :
       fault' = [op |-> op, line |-> NullDerefs(derefs)[i].line,
                 ptr |-> NullDerefs(derefs)[i].ptr]
  /\ pc' = "crashed"
  /\ UNCHANGED <<fields, driver, hist, args, built, kd, used, nUpdate, nStorage,
                 nGradient, nValue, krun, calls>>

ComputeEarly == CallEarly("compute", ComputeDerefs)

UpdateEarly == CallEarly("update", UpdateDerefs)

\* compute(s, x, obj, bnd, algo_state), with a solver that writes its
\* output arguments in one of the given modes
ComputeBy(modes) ==
  /\ Ready
  /\ \E out \in KrylovRun(obj, algo_state.iterateVec, step_state.gradientVec),
        w \in modes :
       LET ret == RunOutputs(out, w, iterKrylov_, flagKrylov_) IN
       /\ kd' = out.d
       /\ iterKrylov_' = ret.iter
       /\ flagKrylov_' = ret.flag
       /\ s' = ComputeStep(out.d, step_state.gradientVec, ret.flag, ret.iter)
       /\ krun' = RunCall(algo_state, step_state,
                          SelectPrecond(useSecantPrecond_, secant_),
                          out, w, flagKrylov_)
  /\ used' = [used EXCEPT !.krylov = krylov_,
                          !.precond = SelectPrecond(useSecantPrecond_, secant_)]
  /\ pc' = "computed"
  /\ hist' = NoText
  /\ UNCHANGED <<secant_, krylov_, ekv_, esec_, gp_, verbosity_,
                 useSecantPrecond_, step_state, algo_state, x, obj,
                 args, built, nUpdate, nStorage, nGradient, nValue, calls, fault>>

\* Variant: compute also records its step and the step norm
ComputeRecordingStep ==
  /\ Ready
  /\ \E out \in KrylovRun(obj, algo_state.iterateVec, step_state.gradientVec) :
       LET step == ComputeStep(out.d, step_state.gradientVec, out.flag, out.iter) IN
       /\ kd' = out.d
       /\ iterKrylov_' = out.iter
       /\ flagKrylov_' = out.flag
       /\ s' = step
       /\ step_state' = [step_state EXCEPT !.descentVec = step]
       /\ algo_state' = [algo_state EXCEPT !.snorm = Norm(step)]
       /\ krun' = RunCall(algo_state, step_state,
                          SelectPrecond(useSecantPrecond_, secant_),
                          out, FullWrite, flagKrylov_)
  /\ used' = [used EXCEPT !.krylov = krylov_,
                          !.precond = SelectPrecond(useSecantPrecond_, secant_)]
  /\ pc' = "computed"
  /\ hist' = NoText
  /\ UNCHANGED <<secant_, krylov_, ekv_, esec_, gp_, verbosity_,
                 useSecantPrecond_, x, obj,
                 args, built, nUpdate, nStorage, nGradient, nValue, calls, fault>>

\* compute with a solver that assigns both of its output arguments, as the
\* solvers of the Krylov factory do; a solver that leaves one untouched
\* retains a count this action also produces and the flag 0
Compute == ComputeBy({FullWrite})

\* update(x, s, obj, bnd, algo_state)
Update ==
  /\ Ready
  /\ nUpdate < MaxUpdates
  /\ Axpy(x, 1, s) \in Vec
  /\ LET x1 == Axpy(x, 1, s) IN
       /\ x' = x1
       /\ algo_state' = UpdateAlgoState(algo_state, obj, x1, s)
       /\ step_state' = UpdateStepState(step_state, obj, x1, s)
       /\ gp_' = UpdateGp(useSecantPrecond_, gp_, step_state.gradientVec)
       /\ calls' = UpdateCalls(useSecantPrecond_, algo_state.iter + 1, x1,
                               ObjGradient(obj, x1),
                               UpdateGp(useSecantPrecond_, gp_, step_state.gradientVec),
                               s)
  /\ nUpdate' = nUpdate + 1
  /\ nGradient' = nGradient + 1
  /\ nValue' = nValue + 1
  /\ nStorage' = IF useSecantPrecond_ THEN nStorage + 1 ELSE nStorage
  /\ used' = IF useSecantPrecond_ THEN [used EXCEPT !.storage = secant_] ELSE used
  /\ pc' = "updated"
  /\ hist' = NoText
  /\ UNCHANGED <<secant_, krylov_, ekv_, esec_, iterKrylov_, flagKrylov_,
                 verbosity_, useSecantPrecond_, s, obj, args, built, kd, krun,
                 fault>>

\* print(algo_state, print_header)
PrintStatus ==
  /\ Ready
  /\ \E print_header \in BOOLEAN :
       hist' = PrintText(algo_state, print_header, ekv_, useSecantPrecond_,
                         esec_, verbosity_, iterKrylov_, flagKrylov_)
  /\ UNCHANGED <<fields, driver, pc, observed>>

\* ---------------------------------------------------------- specifications
\* The start points x0 handed to initialize
StartPoints == {p \in Vec : Abs(p[1]) + Abs(p[2]) <= MaxCoord}

\* One optimization run on a default-constructed step. print is a const
\* member and changes nothing these steps read; it runs in the life cycle
\* below
Next ==
  \/ Initialize(StartPoints, Objectives)
  \/ Compute
  \/ Update

Spec == Init /\ [][Next]_vars

\* The life cycle from construction on, from the start point 0 of an
\* indefinite objective
NextLife ==
  \/ Construct1
  \/ Construct2
  \/ Initialize({Zero}, {<<2, -1>>})
  \/ ComputeEarly
  \/ UpdateEarly
  \/ Compute
  \/ Update
  \/ PrintStatus

SpecLife == InitLife /\ [][NextLife]_vars

\* One optimization run with solvers that may leave an output argument
\* untouched, on the indefinite objective from the two unit points
NextSolver ==
  \/ Initialize({<<1, 0>>, <<0, 1>>}, {<<2, -1>>})
  \/ ComputeBy(WriteModes)
  \/ Update

SpecSolver == Init /\ [][NextSolver]_vars

\* ================================================================ claims
Identity == <<1, 1>>

\* C1 - Fallback exactness: after a compute whose solver returned the
\* negative-curvature flag with an iteration count of at most 1, s is the
\* negated dual of the gradient held in StepState, whatever direction the
\* solver left in s.
C1_FallbackExact ==
  (pc = "computed" /\ flagKrylov_ = 2 /\ iterKrylov_ <= 1)
    => s = Scale(-1, Dual(step_state.gradientVec))

\* C1 witness: the fallback fired over a solver direction that differs from
\* the dual gradient
C1_Witness ==
  /\ pc = "computed" /\ flagKrylov_ = 2 /\ iterKrylov_ = 1
  /\ step_state.gradientVec # Zero
  /\ kd # Zero
  /\ kd # Dual(step_state.gradientVec)
  /\ s = Scale(-1, Dual(step_state.gradientVec))

\* C2 - Fallback non-triggering: after a compute whose solver returned the
\* negative-curvature flag with an iteration count above 1, s is the negated
\* solver direction; the dual gradient plays no part.
C2_NoFallback ==
  (pc = "computed" /\ flagKrylov_ = 2 /\ iterKrylov_ > 1)
    => s = Scale(-1, kd)

\* C2 witness: negative curvature after two inner iterations, with a solver
\* direction the fallback would have replaced
C2_Witness ==
  /\ pc = "computed" /\ flagKrylov_ = 2 /\ iterKrylov_ = 2
  /\ kd # Dual(step_state.gradientVec)
  /\ kd # Zero
  /\ s = Scale(-1, kd)

\* C3 - Descent direction sign: after a compute whose solver returned any
\* flag other than 2, for every iteration count, s is the negated solver
\* direction and negating s gives the solver direction back.
C3_DescentSign ==
  (pc = "computed" /\ flagKrylov_ # 2)
    => (s = Scale(-1, kd) /\ Scale(-1, s) = kd)

\* C3 witness: a breakdown flag with no inner iteration and a non-zero
\* direction that is not the dual gradient
C3_Witness ==
  /\ pc = "computed" /\ flagKrylov_ = 3 /\ iterKrylov_ = 0
  /\ kd # Zero
  /\ kd # Dual(step_state.gradientVec)
  /\ s = Scale(-1, kd)

\* C4 - Monotonic counters: from iter = 0 and ngrad = 0, after n calls of
\* update interleaved with any compute and print calls, iter = n and
\* ngrad = n, and update has evaluated the gradient n times.
C4_Counters ==
  /\ algo_state.iter = nUpdate
  /\ algo_state.ngrad = nUpdate
  /\ nGradient = nUpdate

\* C4 witness: two updates with a compute before and a print after
C4_Witness ==
  /\ nUpdate = 2 /\ algo_state.iter = 2 /\ algo_state.ngrad = 2
  /\ used.krylov # "none"
  /\ hist # NoText

\* C5 - State consistency: once update has run, iterateVec is the point x,
\* value is the objective at x, the StepState gradient is the gradient at x
\* and gnorm is the norm of that gradient.
C5_Consistent ==
  nUpdate > 0 =>
    /\ algo_state.iterateVec = x
    /\ algo_state.value = ObjValue(obj, x)
    /\ step_state.gradientVec = ObjGradient(obj, x)
    /\ algo_state.gnorm = Norm(ObjGradient(obj, x))

\* C5 witness: an update that moved the iterate to a point whose gradient
\* norm differs from the one at the point it left
C5_Witness ==
  /\ pc = "updated"
  /\ s # Zero
  /\ algo_state.gnorm # Norm(ObjGradient(obj, Axpy(x, -1, s)))
  /\ algo_state.gnorm = Norm(step_state.gradientVec)

\* C6 - Secant gating: with 'Use as Preconditioner' false, over every
\* sequence of construct, initialize, compute and update, updateStorage is
\* never called, no compute hands the secant object to the solver (the
\* default wrapper is handed over instead), the constructor never calls the
\* secant factory, and gp_ is never cloned or written.
C6_SecantGated ==
  (args.ctor # 0 /\ ~args.parlist.useSecant) =>
    /\ nStorage = 0
    /\ used.storage = "none"
    /\ used.precond \in {"none", "PrecondNK"}
    /\ "Secant" \notin built
    /\ gp_ = Null

\* C6 witness: a disabled secant, although the user supplied one, after two
\* updates and a compute that used the default wrapper
C6_Witness ==
  /\ args.ctor = 2 /\ args.secant = "UserSecant" /\ ~useSecantPrecond_
  /\ secant_ = "UserSecant"
  /\ pc = "updated" /\ nUpdate = 2
  /\ used.precond = "PrecondNK"

\* C7 - Idempotent construction: a non-null user Krylov object is the one
\* the step holds and every compute runs, and the Krylov factory is not
\* called; with secant preconditioning enabled a non-null user secant object
\* is the one the step holds, hands to the solver and updates, and the
\* secant factory is not called.  A factory is called only for a
\* collaborator supplied as null.
C7_UserObjectsKept ==
  /\ (pc \notin {"new", "failed"} /\ args.krylov # Null) =>
       /\ "Krylov" \notin built
       /\ krylov_ = args.krylov
       /\ used.krylov \in {"none", args.krylov}
  /\ (pc \notin {"new", "failed"} /\ args.secant # Null /\ args.parlist.useSecant) =>
       /\ "Secant" \notin built
       /\ secant_ = args.secant
       /\ used.precond \in {"none", args.secant}
       /\ used.storage \in {"none", args.secant}
  /\ ("Krylov" \in built => args.krylov = Null)
  /\ ("Secant" \in built => args.secant = Null)

\* C7 witness: both objects supplied, secant enabled, and both reached by a
\* compute and an update
C7_Witness ==
  /\ args.krylov = "UserKrylov" /\ args.secant = "UserSecant"
  /\ useSecantPrecond_
  /\ used = [krylov |-> "UserKrylov", precond |-> "UserSecant",
             storage |-> "UserSecant"]
  /\ built = {}

\* C8 - Compute frame: a compute changes nothing but s and the retained
\* Krylov iteration count and flag: AlgorithmState, StepState, x, gp_ and
\* the other fields of the step are left alone; AlgorithmState, once
\* initialized, changes in update steps only.
C8_ComputeFrame ==
  [][ /\ (pc' = "computed" =>
            UNCHANGED <<algo_state, step_state, x, gp_, obj, secant_, krylov_,
                        ekv_, esec_, verbosity_, useSecantPrecond_>>)
      /\ ((Ready /\ algo_state' # algo_state) =>
            (pc' = "updated" /\ nUpdate' = nUpdate + 1)) ]_vars

\* C8 witness: a compute after an update that wrote a non-zero step and the
\* negative-curvature flag
C8_Witness ==
  /\ pc = "computed" /\ nUpdate = 1
  /\ s # Zero /\ s # step_state.descentVec
  /\ flagKrylov_ = 2 /\ iterKrylov_ = 2

\* The constructor consulted the Krylov / secant type string
KrylovTypeRead == args.ctor = 1 \/ (args.ctor = 2 /\ args.krylov = Null)
SecantTypeRead ==
  \/ (args.ctor = 1 /\ args.parlist.useSecant)
  \/ (args.ctor = 2 /\ args.parlist.useSecant /\ args.secant = Null)
BadKrylovType == args.parlist.krylovType \notin {"Conjugate Gradients"}
BadSecantType == args.parlist.secantType \notin {"Limited-Memory BFGS"}

NewtonSolve ==
  /\ pc = "computed" /\ obj = Identity
  /\ ObjHessVec(obj, kd, algo_state.iterateVec) = step_state.gradientVec
  /\ flagKrylov_ # 2

\* C10 - Newton cycle: on the objective with identity Hessian, a compute
\* with an exact solve and no negative curvature leaves s = -x, and the
\* update that follows leaves x = 0, value = 0, gnorm = 0 and one more
\* iteration (iter = 1 after the first cycle), from every start point.
C10_NewtonCycle ==
  [][ NewtonSolve =>
        /\ s = Scale(-1, x)
        /\ (pc' = "updated" =>
              /\ x' = Zero
              /\ algo_state'.iterateVec = Zero
              /\ algo_state'.value = 0
              /\ algo_state'.gnorm = 0
              /\ algo_state'.iter = algo_state.iter + 1
              /\ (nUpdate = 0 => algo_state'.iter = 1)) ]_vars

\* C10 witness: the cycle from x0 = (2, 0): s = (-2, 0), then x = (0, 0)
C10_Witness ==
  /\ pc = "updated" /\ obj = Identity
  /\ kd = <<2, 0>> /\ flagKrylov_ = 0
  /\ s = <<-2, 0>> /\ step_state.descentVec = <<-2, 0>>
  /\ x = Zero
  /\ algo_state.value = 0 /\ algo_state.gnorm = 0 /\ algo_state.iter = 1

\* The eight substantive fields of the AlgorithmState and of the step
StatusFields ==
  <<algo_state.iter, algo_state.value, algo_state.gnorm, algo_state.snorm,
    algo_state.nfval, algo_state.ngrad, iterKrylov_, flagKrylov_>>

\* C11 as stated - Status line fields: for every AlgorithmState, the line
\* print produces reproduces iter, value, gnorm, snorm, the function and
\* gradient evaluation counts, the Krylov iteration count and the Krylov flag.
C11_AsStated ==
  hist.line # <<>> => hist.line = StatusFields

\* C11 - Status line fields: for an AlgorithmState with iter >= 1 the line
\* print produces is iter, value, gnorm, snorm, the function and gradient
\* evaluation counts, the Krylov iteration count and the Krylov flag, the last
\* two being what the solver returned in the most recent compute; for iter = 0
\* the line is iter, value, gnorm only.
C11_StatusLine ==
  hist.line # <<>> =>
    IF algo_state.iter = 0
      THEN hist.line = <<algo_state.iter, algo_state.value, algo_state.gnorm>>
      ELSE /\ hist.line = StatusFields
           /\ krun # NoRun => /\ krun.returned.iter = <<hist.line[7]>>
                              /\ krun.returned.flag = <<hist.line[8]>>

\* C11 witness: a line printed after an update that followed a solve which
\* returned one iteration and the negative-curvature flag
C11_Witness ==
  /\ Len(hist.line) = 8
  /\ algo_state.iter >= 1 /\ algo_state.snorm > 0
  /\ krun.returned = [iter |-> <<1>>, flag |-> <<2>>]
  /\ hist.line[7] = 1 /\ hist.line[8] = 2

\* A step of the behaviour that is a call of update
UpdateStep == Ready /\ pc' = "updated" /\ nUpdate' = nUpdate + 1

\* The operations of a sequence of calls, in order
Ops(cs) == [i \in 1..Len(cs) |-> cs[i].op]

\* C12 - Secant update arguments and order: with the secant enabled, every
\* update calls updateStorage exactly once, after the gradient evaluation,
\* with the new point x + s, the gradient at the new point, the gradient
\* StepState held just before this update, the step s, its norm, and the
\* already-incremented iteration counter plus one (k + 1 in the k-th update).
C12_SecantUpdate ==
  [][(UpdateStep /\ useSecantPrecond_) =>
       /\ Ops(calls') = <<"update", "value", "gradient", "updateStorage">>
       /\ calls'[4] = [op |-> "updateStorage",
                       x |-> <<x[1] + s[1], x[2] + s[2]>>,
                       g |-> ObjGradient(obj, <<x[1] + s[1], x[2] + s[2]>>),
                       gp |-> step_state.gradientVec,
                       s |-> s,
                       snorm |-> s[1] * s[1] + s[2] * s[2],
                       iter |-> algo_state'.iter + 1]
       /\ calls'[4].iter = nUpdate' + 1
       /\ nStorage' = nStorage + 1]_vars

\* C12 witness: the second update of a secant-preconditioned run stored a
\* non-zero step with index 3 and an old gradient that differs from the new
C12_Witness ==
  /\ pc = "updated" /\ useSecantPrecond_ /\ nUpdate = 2
  /\ Len(calls) = 4
  /\ calls[4].op = "updateStorage" /\ calls[4].iter = 3
  /\ calls[4].s # Zero
  /\ calls[4].gp # calls[4].g

\* C13 - Oracle call ordering in update: the objective is notified exactly
\* once of the new point, with flag true and the already-incremented
\* iteration counter, before the single value evaluation and the single
\* gradient evaluation, both at the new point.
C13_OracleOrder ==
  pc = "updated" =>
    /\ SubSeq(calls, 1, 3) =
         << [op |-> "update", x |-> x, flag |-> TRUE, iter |-> algo_state.iter],
            [op |-> "value", x |-> x],
            [op |-> "gradient", x |-> x] >>
    /\ \A o \in {"update", "value", "gradient"} :
         Cardinality({i \in 1..Len(calls) : calls[i].op = o}) = 1
    /\ algo_state.iter = nUpdate
    /\ nValue = nUpdate /\ nGradient = nUpdate

\* C13 witness: the second update moved the iterate and notified the
\* objective of the point it moved to
C13_Witness ==
  /\ pc = "updated" /\ nUpdate = 2
  /\ step_state.descentVec # Zero
  /\ calls[1] = [op |-> "update", x |-> x, flag |-> TRUE, iter |-> 2]
  /\ calls[2].op = "value" /\ calls[3].op = "gradient"

\* C14 - Operators bound to the current iterate: in every compute the Hessian
\* wrapper and, with the secant disabled, the default preconditioner wrapper
\* evaluate at the current iterate, which after an update is the x that
\* update left; the right-hand side of the solve is the StepState gradient.
C14_CurrentIterate ==
  pc = "computed" =>
    /\ krun.hessianAt = algo_state.iterateVec
    /\ krun.rhs = step_state.gradientVec
    /\ ~useSecantPrecond_ =>
         /\ krun.precond = "PrecondNK"
         /\ krun.precondAt = algo_state.iterateVec
    /\ nUpdate > 0 =>
         /\ krun.hessianAt = x
         /\ ~useSecantPrecond_ => krun.precondAt = x

\* C14 witness: a solve after an update that moved the iterate, with the
\* default preconditioner and a non-zero right-hand side
C14_Witness ==
  /\ pc = "computed" /\ nUpdate >= 1 /\ ~useSecantPrecond_
  /\ step_state.descentVec # Zero
  /\ krun.hessianAt = x /\ krun.precondAt = x
  /\ krun.rhs # Zero

\* C15 - Unit step: every update sets x to x + s, leaves s unchanged, records
\* a copy of s as the descent vector and sets snorm to the norm of s.
C15_UnitStep ==
  [][UpdateStep =>
       /\ x' = <<x[1] + s[1], x[2] + s[2]>>
       /\ s' = s
       /\ step_state'.descentVec = s
       /\ algo_state'.snorm = s[1] * s[1] + s[2] * s[2]]_vars

\* C15 witness: an update by a non-zero step
C15_Witness ==
  /\ pc = "updated" /\ s # Zero
  /\ step_state.descentVec = s
  /\ algo_state.snorm = s[1] * s[1] + s[2] * s[2]
  /\ algo_state.iterateVec = x

C17_NoStaleFlag ==
  [][(Ready /\ pc' = "computed") =>
       /\ krun'.returned.flag = <<>> =>
            /\ krun'.erased = <<flagKrylov_>>
            /\ flagKrylov_' = 0
            /\ s' = <<-kd'[1], -kd'[2]>>
       /\ krun'.returned.flag # <<>> => <<flagKrylov_'>> = krun'.returned.flag
       /\ krun'.returned.iter = <<>> => iterKrylov_' = iterKrylov_
       /\ krun'.returned.iter # <<>> => <<iterKrylov_'>> = krun'.returned.iter]_vars

\* C17 witness: a solve that assigned neither output followed a compute that
\* had left flag 2 with at most one iteration; the step is the negated solver
\* direction, not the negated dual gradient
C17_Witness ==
  /\ pc = "computed"
  /\ krun.returned = [iter |-> <<>>, flag |-> <<>>]
  /\ krun.erased = <<2>>
  /\ flagKrylov_ = 0 /\ iterKrylov_ <= 1
  /\ step_state.gradientVec # Zero
  /\ kd # Dual(step_state.gradientVec)
  /\ s = Scale(-1, kd)

=============================================================================
